---- MODULE Spec2Model ----
(***************************************************************************)
(* A state-machine model of the orchestration core of aurora-core:         *)
(*   - HandlerManager: entity -> handler bindings, boot restore, live      *)
(*     rebinding and the socket connect / disconnect listeners;            *)
(*   - ModeController / ModeManager: enabling and disabling modes;         *)
(*   - the Centurion tape scheduler (start / tick / skip / stop).          *)
(* Each part has its own specification over the shared variables.          *)
(***************************************************************************)
EXTENDS Integers, Sequences, FiniteSets, Bags, TLC

(***************************************************************************)
(* Bounds of the model.                                                    *)
(***************************************************************************)
\* Socket ids are 1..NumSockets; 0 stands for "no socket" (undefined).
NumSockets == 2
\* init() may be run this many times (each run adds one pair of listeners).
MaxInits == 2

(***************************************************************************)
(* HandlerManager: static data.                                            *)
(***************************************************************************)
\* The keys of _handlers in insertion order.
Categories == <<"Audio", "LightsGroup", "Screen">>

\* The handler list registered for one category, by constructor name.
HandlersOf(cat) ==
    CASE cat = "Audio"       -> <<"SimpleAudioHandler">>
      [] cat = "LightsGroup" -> <<"RandomEffectsHandler", "SetEffectsHandler",
                                  "DevelopEffectsHandler">>
      [] cat = "Screen"      -> << >>

Range(s) == {s[i] : i \in DOMAIN s}

AllHandlers == UNION {Range(HandlersOf(Categories[i])) : i \in DOMAIN Categories}

\* The device entities known to the persistence layer.
Entities == {"l1", "l2", "a1", "s1"}

CategoryOf(e) ==
    CASE e \in {"l1", "l2"} -> "LightsGroup"
      [] e = "a1"           -> "Audio"
      [] e = "s1"           -> "Screen"

\* entity.name, compared with user.name by the connection listeners.
NameOf(e) ==
    CASE e \in {"l1", "a1"} -> "alpha"
      [] e \in {"l2", "s1"} -> "beta"

Users == {"alpha", "beta"}

SocketIds == 1..NumSockets

\* The currentHandler column of an entity's row when the process boots.
BootHandlerNames(e) ==
    CASE e = "l1" -> {"", "RandomEffectsHandler", "RemovedHandler"}
      [] e = "l2" -> {"SetEffectsHandler"}
      [] e = "a1" -> {"SimpleAudioHandler", "RandomEffectsHandler"}
      [] e = "s1" -> {"RemovedHandler"}

\* The entities that callers rebind with registerHandler.
RequestedEntities == {"l1", "a1"}

\* The names a caller passes to registerHandler.
RequestedNames ==
    {"", "RandomEffectsHandler", "SetEffectsHandler", "SimpleAudioHandler", "RemovedHandler"}

VARIABLES
    initialized,     \* HandlerManager.initialized
    entities,        \* handler name -> the entities registered with it
    currentHandler,  \* entity -> persisted currentHandler column
    socketId,        \* entity -> socketId field of the entity object
    dbSocketId,      \* entity -> persisted socketId column
    sockets,         \* io.sockets.sockets: socket id -> user name, "" when closed
    listeners,       \* connect/disconnect listener pairs on the emitter
    hmPc,            \* "idle", "restoring" (inside init), "registering"
    pending,         \* categories whose restore continuation has not run yet
    found,           \* entity -> currentHandler as fetched by init's find()
    rh,              \* arguments and locals of registerHandler, until the next call
    pushes,          \* bag of socket pushes made by the latest operation
    lastOp           \* the latest completed operation and its socket id

hmVars == <<initialized, entities, currentHandler, socketId, dbSocketId, sockets,
            listeners, hmPc, pending, found, rh, pushes, lastOp>>

VARIABLES
    modes,        \* ModeManager: key -> installed instance, 0 when the slot is empty
    created,      \* number of mode instances constructed so far
    keyOf,        \* instance -> the key of the enable handler that built it, "" if unbuilt
    subscribed,   \* instances subscribed to their shared emitter
    playing,      \* instances whose scheduling timers run
    loaded,       \* instances holding a tape
    ready,        \* instances whose collaborators are prepared
    received,     \* instances that have received an emitter event or a tick
    reqs,         \* kind of enable request -> how many wait in mapBodyToEntities
    status,       \* status code of the latest ModeController response, 0 when none
    outcome       \* the latest CenturionController call: operation and status code

modeVars == <<modes, created, keyOf, subscribed, playing, loaded, ready, received,
              reqs, status, outcome>>

VARIABLES
    feed,         \* the timestamps of the loaded tape's cues, in authored order
    elapsed,      \* seconds of the tape played so far
    tapePlaying,  \* whether the scheduling loop of the tape runs
    nextCue,      \* number of cues before the next undispatched cue
    fired,        \* cue -> times it was dispatched since the latest skip
    dispatch,     \* the cues dispatched by the latest tick, in dispatch order
    skippedTo,    \* the argument of the latest skip, -1 before any skip
    tapeOp        \* the latest call on the tape: "load", "start", "tick", "skip", "stop"

tapeVars == <<feed, elapsed, tapePlaying, nextCue, fired, dispatch, skippedTo, tapeOp>>

VARIABLES
    waveT,        \* triangleFunction: its argument t, in units of 1/Grain
    waveP,        \* triangleFunction: its period p, in units of 1/Grain
    wave,         \* triangleFunction: the value returned, a fraction num/den
    progression,  \* setPosition: its argument progression, in units of 1/Grain
    offset,       \* setPosition: its argument offset, in units of 1/Grain
    pan,          \* setPosition: the pan passed to the moving head, a fraction
    tilt          \* setPosition: the tilt passed to the moving head, a fraction

waveVars == <<waveT, waveP, wave, progression, offset, pan, tilt>>

VARIABLES
    storeInitialized,  \* ServerSettingsStore.initialized
    settings,          \* ServerSettingsStore.settings: key -> value in memory
    db,                \* the server-setting rows of the database: key -> value
    initCalls,         \* initialize: the bag of the calls in flight, each with where
                       \* it stands and the rows that its repo.find() returned
    setCalls,          \* setSetting: the bag of the calls in flight
    storeOp,           \* the latest call that ended, and how
    saves,             \* key -> how many saves of its default reached the database
    completed          \* how many initialize calls completed without error

storeVars == <<storeInitialized, settings, db, initCalls, setCalls, storeOp,
               saves, completed>>

VARIABLES
    params,    \* mapBodyToEntities: the ids of the request body
    lookupPc,  \* mapBodyToEntities: the await at which the call stands
    lights,    \* mapBodyToEntities: the ids of the lights groups found
    screens,   \* mapBodyToEntities: the ids of the screens found
    audios     \* mapBodyToEntities: the ids of the audios found

lookupVars == <<params, lookupPc, lights, screens, audios>>

vars == <<hmVars, modeVars, tapeVars, waveVars, storeVars, lookupVars>>

NoCall == [entity |-> "none", newHandler |-> "", socket |-> 0]

\* getHandlers(entity): the handlers of one category.
getHandlers(cat) == HandlersOf(cat)

\* The handlers currently holding entity e.
Holding(e) == {h \in AllHandlers : e \in entities[h]}

Push(to, ev, arg) == [to |-> to, ev |-> ev, arg |-> arg]

\* A bag holding n copies of each element of S.
Copies(S, n) == IF n > 0 THEN [p \in S |-> n] ELSE EmptyBag

InitHM ==
    /\ initialized = FALSE
    /\ entities = [h \in AllHandlers |-> {}]
    /\ currentHandler \in {f \in [Entities -> RequestedNames \cup AllHandlers] :
                              \A e \in Entities : f[e] \in BootHandlerNames(e)}
    /\ socketId = [e \in Entities |-> 0]
    /\ dbSocketId = [e \in Entities |-> 0]
    /\ sockets = [s \in SocketIds |-> ""]
    /\ listeners = 0
    /\ hmPc = "idle"
    /\ pending = {}
    /\ found = [e \in Entities |-> ""]
    /\ rh = NoCall
    /\ pushes = EmptyBag
    /\ lastOp = [op |-> "boot", sid |-> 0]

(***************************************************************************)
(* BaseHandler.registerEntity / removeEntity: the entity joins or leaves   *)
(* the handler's entity set, and the change of handler name is saved to    *)
(* the entity's row.                                                       *)
(***************************************************************************)
\* handler h registers every entity of S
registerEntity(ents, h, S) == [ents EXCEPT ![h] = @ \cup S]

\* handler h removes entity e (nothing happens when it does not hold e)
removeEntity(ents, h, e) == [ents EXCEPT ![h] = @ \ {e}]

\* the currentHandler columns after handler h registered the entities of S
savedOnRegister(cur, h, S) == [e \in Entities |-> IF e \in S THEN h ELSE cur[e]]

\* the currentHandler columns after a handler holding e (held = TRUE) removed it
savedOnRemove(cur, held, e) == IF held THEN [cur EXCEPT ![e] = ""] ELSE cur

(***************************************************************************)
(* init(): guard, find() per category, restoreHandlers per fetched entity, *)
(* then the two listeners are added.  initialized is never assigned.       *)
(* A run of init is not interleaved with other calls on the manager.       *)
(***************************************************************************)
InitBegin ==
    /\ hmPc = "idle"
    /\ listeners < MaxInits
    /\ IF initialized
       THEN /\ lastOp' = [op |-> "initError", sid |-> 0]
            /\ UNCHANGED <<hmPc, pending, found>>
       ELSE /\ hmPc' = "restoring"
            /\ pending' = Range(Categories)
            /\ found' = currentHandler
            /\ UNCHANGED lastOp
    /\ pushes' = EmptyBag
    /\ rh' = NoCall
    /\ UNCHANGED <<modeVars, tapeVars, waveVars, storeVars, lookupVars>>
    /\ UNCHANGED <<initialized, entities, currentHandler, socketId, dbSocketId,
                   sockets, listeners>>

\* restoreHandlers wrongly registering with every handler of the category
restoreHandlersAnyName(cat) ==
    LET hs == HandlersOf(cat)
        all == {e \in Entities : CategoryOf(e) = cat}
    IN  /\ entities' = [h \in AllHandlers |->
                           IF h \in Range(hs)
                           THEN registerEntity(entities, h, all)[h]
                           ELSE entities[h]]
        /\ currentHandler' = currentHandler

\* restoreHandlers(entity, handlers) for every fetched entity of one category:
\* the handlers whose constructor name is entity.currentHandler register it.
restoreHandlers(cat) ==
    LET hs == HandlersOf(cat)
        matched(h) == {e \in Entities : CategoryOf(e) = cat /\ found[e] = h}
    IN  /\ entities' = [h \in AllHandlers |->
                           IF h \in Range(hs)
                           THEN registerEntity(entities, h, matched(h))[h]
                           ELSE entities[h]]
        /\ currentHandler' = [e \in Entities |->
                                 IF CategoryOf(e) = cat /\ found[e] \in Range(hs)
                                 THEN savedOnRegister(currentHandler, found[e], {e})[e]
                                 ELSE currentHandler[e]]

InitRestore(cat) ==
    /\ hmPc = "restoring"
    /\ cat \in pending
    /\ restoreHandlers(cat)
    /\ pending' = pending \ {cat}
    /\ UNCHANGED <<modeVars, tapeVars, waveVars, storeVars, lookupVars>>
    /\ UNCHANGED <<initialized, socketId, dbSocketId, sockets, listeners, hmPc,
                   found, rh, pushes, lastOp>>

InitEnd ==
    /\ hmPc = "restoring"
    /\ pending = {}
    /\ listeners' = listeners + 1
    /\ hmPc' = "idle"
    /\ found' = [e \in Entities |-> ""]
    /\ lastOp' = [op |-> "init", sid |-> 0]
    /\ UNCHANGED <<modeVars, tapeVars, waveVars, storeVars, lookupVars>>
    /\ UNCHANGED <<initialized, entities, currentHandler, socketId, dbSocketId,
                   sockets, pending, rh, pushes>>

(***************************************************************************)
(* registerHandler(entity, newHandler).  The method is synchronous (it     *)
(* never awaits); it is modelled in its two halves so that the state       *)
(* between them exists in the model.  The entity object is the caller's    *)
(* copy of the entity's row.                                               *)
(***************************************************************************)
\* a registerHandler that forgets to deregister
DeregisteredNowhere(e) == entities

\* handlers.forEach((handler) => handler.removeEntity(entity))
Deregistered(e) ==
    LET hs == getHandlers(CategoryOf(e))
    IN  [h \in AllHandlers |->
            IF h \in Range(hs) THEN removeEntity(entities, h, e)[h] ELSE entities[h]]

\* this.io.sockets.sockets.get(entity.socketId || ''): 0 when there is none
SocketOf(sid) == IF sid # 0 /\ sockets[sid] # "" THEN sid ELSE 0

\* The first half: every handler of the category removes the entity, and the
\* socket of the entity is looked up.
RegisterHandlerRemove(e, newHandler) ==
    /\ hmPc = "idle"
    /\ entities' = Deregistered(e)
    /\ currentHandler' = savedOnRemove(currentHandler, Holding(e) # {}, e)
    /\ socketId' = [socketId EXCEPT ![e] = dbSocketId[e]]
    /\ rh' = [entity |-> e, newHandler |-> newHandler, socket |-> SocketOf(dbSocketId[e])]
    /\ hmPc' = "registering"
    /\ pushes' = EmptyBag
    /\ UNCHANGED <<modeVars, tapeVars, waveVars, storeVars, lookupVars>>
    /\ UNCHANGED <<initialized, dbSocketId, sockets, listeners, pending, found, lastOp>>

\* The second half: the handlers named newHandler register the entity and
\* handler_set is pushed for each; handler_remove is pushed for the empty name.
RegisterHandlerRegister ==
    LET e == rh.entity
        hs == getHandlers(CategoryOf(e))
        hits == {i \in DOMAIN hs : hs[i] = rh.newHandler}
    IN  /\ hmPc = "registering"
        /\ IF rh.newHandler # ""
           THEN /\ entities' = [h \in AllHandlers |->
                                   IF \E i \in hits : hs[i] = h
                                   THEN registerEntity(entities, h, {e})[h]
                                   ELSE entities[h]]
                /\ currentHandler' = IF hits # {}
                                     THEN savedOnRegister(currentHandler, rh.newHandler, {e})
                                     ELSE currentHandler
                /\ pushes' = IF rh.socket # 0
                             THEN Copies({Push(rh.socket, "handler_set", rh.newHandler)},
                                         Cardinality(hits))
                             ELSE EmptyBag
           ELSE /\ pushes' = IF rh.socket # 0
                             THEN Copies({Push(rh.socket, "handler_remove", "")}, 1)
                             ELSE EmptyBag
                /\ UNCHANGED <<entities, currentHandler>>
        /\ hmPc' = "idle"
        /\ lastOp' = [op |-> "registerHandler", sid |-> 0]
        /\ UNCHANGED <<modeVars, tapeVars, waveVars, storeVars, lookupVars>>
        /\ UNCHANGED <<initialized, socketId, dbSocketId, sockets, listeners, pending,
                       found, rh>>

(***************************************************************************)
(* The connect and disconnect listeners added by init.  One emitted event  *)
(* runs every listener pair that was added.  A listener is a callback of   *)
(* the event loop: it runs between calls, never inside a synchronous one.  *)
(***************************************************************************)
\* a listener that could run inside a registerHandler call
ListenerMayRunInsideCall == hmPc \in {"idle", "registering"}

ListenerMayRun == hmPc = "idle"

\* a scan that forgets to compare the names
MatchedAnyName(user) == {e \in Entities : Holding(e) # {}}

\* The registered entities with entity.name === user.name.
Matched(user) == {e \in Entities : Holding(e) # {} /\ NameOf(e) = user}

\* The pushes of one scan: one per (handler, matching entity), per listener.
ScanPushes(user, sid, ev, open) ==
    LET hit(h) == entities[h] \cap Matched(user)
        hs == {h \in AllHandlers : hit(h) # {}}
    IN  IF open /\ listeners > 0
        THEN [p \in {Push(sid, ev, h) : h \in hs} |->
                 listeners * Cardinality(hit(p.arg))]
        ELSE EmptyBag

Connect(user, sid) ==
    /\ ListenerMayRun
    /\ sockets[sid] = ""
    /\ sockets' = [sockets EXCEPT ![sid] = user]
    /\ pushes' = ScanPushes(user, sid, "handler_set", TRUE)
    /\ IF listeners > 0
       THEN /\ socketId' = [e \in Entities |->
                               IF e \in Matched(user) THEN sid ELSE socketId[e]]
            /\ dbSocketId' = [e \in Entities |->
                                 IF e \in Matched(user) THEN sid ELSE dbSocketId[e]]
       ELSE UNCHANGED <<socketId, dbSocketId>>
    /\ lastOp' = [op |-> "connect", sid |-> sid]
    /\ rh' = NoCall
    /\ UNCHANGED <<modeVars, tapeVars, waveVars, storeVars, lookupVars>>
    /\ UNCHANGED <<initialized, entities, currentHandler, listeners, hmPc, pending,
                   found>>

\* stillOpen: whether the transport still lists the socket when the event fires.
Disconnect(sid, stillOpen) ==
    LET user == sockets[sid]
    IN  /\ ListenerMayRun
        /\ user # ""
        /\ sockets' = [sockets EXCEPT ![sid] = ""]
        /\ pushes' = ScanPushes(user, sid, "handler_remove", stillOpen)
        /\ IF listeners > 0
           THEN /\ socketId' = [e \in Entities |->
                                   IF e \in Matched(user) THEN 0 ELSE socketId[e]]
                /\ dbSocketId' = [e \in Entities |->
                                     IF e \in Matched(user) THEN 0 ELSE dbSocketId[e]]
           ELSE UNCHANGED <<socketId, dbSocketId>>
        /\ lastOp' = [op |-> "disconnect", sid |-> sid]
        /\ rh' = NoCall
        /\ UNCHANGED <<modeVars, tapeVars, waveVars, storeVars, lookupVars>>
        /\ UNCHANGED <<initialized, entities, currentHandler, listeners, hmPc, pending,
                       found>>

NextHM ==
    \/ InitBegin
    \/ \E cat \in Range(Categories) : InitRestore(cat)
    \/ InitEnd
    \/ \E e \in RequestedEntities, n \in RequestedNames : RegisterHandlerRemove(e, n)
    \/ RegisterHandlerRegister
    \/ \E u \in Users, s \in SocketIds : Connect(u, s)
    \/ \E s \in SocketIds, o \in BOOLEAN : Disconnect(s, o)

(***************************************************************************)
(* ModeController over the ModeManager.  An enable request awaits the      *)
(* three entity lookups, then constructs the mode, initializes it with the *)
(* shared emitter and hands it to ModeManager.enableMode in one            *)
(* synchronous run.                                                        *)
(***************************************************************************)
\* Mode instances are numbered 1..MaxInstances in order of construction.
MaxInstances == 2
\* HTTP enable requests that may be in flight at once.
MaxRequests == 2

ModeKeys == {"centurion", "time-trail-racing"}

\* The mode class an enable handler stores under each key.
TypeOfKey(k) == IF k = "centurion" THEN "CenturionMode" ELSE "TimeTrailRaceMode"

\* The names of the tapes in the tapes list.
Tapes == {"tape"}

\* centurionName values of requests.
RequestedTapes == {"tape", "unknown"}

\* The enable requests that can be in flight: the handler and its tape name.
RequestKinds == {<<"centurion", n>> : n \in RequestedTapes} \cup {<<"time-trail-race", "">>}

RECURSIVE SumOver(_, _)
SumOver(S, f) == IF S = {} THEN 0 ELSE LET x == CHOOSE y \in S : TRUE
                                       IN  f[x] + SumOver(S \ {x}, f)

Instances == 1..MaxInstances

InitModes ==
    /\ modes = [k \in ModeKeys |-> 0]
    /\ created = 0
    /\ keyOf = [i \in Instances |-> ""]
    /\ subscribed = {}
    /\ playing = {}
    /\ loaded = {}
    /\ ready = {}
    /\ received = {}
    /\ reqs = [k \in RequestKinds |-> 0]
    /\ status = 0
    /\ outcome = [op |-> "none", result |-> 0, on |-> 0]

(***************************************************************************)
(* ModeManager and the mode's own life cycle.                              *)
(***************************************************************************)
\* mode.initialize(emitter): the mode subscribes to the shared emitter.
initialize(subs, i) == subs \cup {i}

\* The mode's teardown: it leaves the emitter and its timers stop.
teardown(S, i) == S \ {i}

\* ModeManager.getMode(type): the installed instance of that type, 0 if absent.
getMode(type) ==
    IF \E k \in ModeKeys : modes[k] # 0 /\ TypeOfKey(keyOf[modes[k]]) = type
    THEN CHOOSE i \in Instances :
            \E k \in ModeKeys : modes[k] = i /\ TypeOfKey(keyOf[i]) = type
    ELSE 0

\* ModeManager.enableMode(type, instance, key): tear down the instance stored
\* for the key, then store the new one.
enableMode(i, key) ==
    /\ subscribed' = teardown(initialize(subscribed, i), modes[key])
    /\ playing' = teardown(playing, modes[key])
    /\ modes' = [modes EXCEPT ![key] = i]

\* ModeManager.disableMode(type, key): remove and tear down the stored instance
\* when its type is the given one.
disableMode(type, key) ==
    IF modes[key] # 0 /\ TypeOfKey(keyOf[modes[key]]) = type
    THEN /\ subscribed' = teardown(subscribed, modes[key])
         /\ playing' = teardown(playing, modes[key])
         /\ modes' = [modes EXCEPT ![key] = 0]
    ELSE UNCHANGED <<subscribed, playing, modes>>

\* ModeManager.reset(): every slot is disabled.
reset ==
    /\ subscribed' = subscribed \ {modes[k] : k \in ModeKeys}
    /\ playing' = playing \ {modes[k] : k \in ModeKeys}
    /\ modes' = [k \in ModeKeys |-> 0]

(***************************************************************************)
(* ModeController handlers.                                                *)
(***************************************************************************)
\* The number of enable requests waiting in mapBodyToEntities.
InFlight == SumOver(RequestKinds, reqs)

\* POST modes/centurion up to the await of mapBodyToEntities
EnableCenturion(name) ==
    /\ InFlight < MaxRequests
    /\ reqs' = [reqs EXCEPT ![<<"centurion", name>>] = @ + 1]
    /\ UNCHANGED <<hmVars, tapeVars, waveVars, storeVars, lookupVars>>
    /\ UNCHANGED <<modes, created, keyOf, subscribed, playing, loaded, ready, received,
                   status, outcome>>

\* POST modes/time-trail-race up to the await of mapBodyToEntities
EnableTimeTrailRace ==
    /\ InFlight < MaxRequests
    /\ reqs' = [reqs EXCEPT ![<<"time-trail-race", "">>] = @ + 1]
    /\ UNCHANGED <<hmVars, tapeVars, waveVars, storeVars, lookupVars>>
    /\ UNCHANGED <<modes, created, keyOf, subscribed, playing, loaded, ready, received,
                   status, outcome>>

\* enableCenturion once mapBodyToEntities has returned: construct, initialize, find the tape,
\* return 404 when there is none, else loadTape and enableMode.
EnableCenturionResume(name) ==
    LET i == created + 1
    IN  /\ reqs[<<"centurion", name>>] > 0
        /\ created < MaxInstances
        /\ created' = i
        /\ keyOf' = [keyOf EXCEPT ![i] = "centurion"]
        /\ IF name \in Tapes
           THEN /\ loaded' = loaded \cup {i}
                /\ enableMode(i, "centurion")
                /\ status' = 204
           ELSE /\ subscribed' = initialize(subscribed, i)
                /\ status' = 404
                /\ UNCHANGED <<loaded, playing, modes>>
        /\ reqs' = [reqs EXCEPT ![<<"centurion", name>>] = @ - 1]
        /\ UNCHANGED <<hmVars, tapeVars, waveVars, storeVars, lookupVars>>
        /\ UNCHANGED <<ready, received, outcome>>

\* enableTimeTrailRace once mapBodyToEntities has returned: construct, initialize, enableMode.
EnableTimeTrailRaceResume ==
    LET i == created + 1
    IN  /\ reqs[<<"time-trail-race", "">>] > 0
        /\ created < MaxInstances
        /\ created' = i
        /\ keyOf' = [keyOf EXCEPT ![i] = "time-trail-racing"]
        /\ enableMode(i, "time-trail-racing")
        /\ status' = 204
        /\ reqs' = [reqs EXCEPT ![<<"time-trail-race", "">>] = @ - 1]
        /\ UNCHANGED <<hmVars, tapeVars, waveVars, storeVars, lookupVars>>
        /\ UNCHANGED <<loaded, ready, received, outcome>>

\* a handler that names the key of the other mode
DisableCenturionOtherKey ==
    /\ disableMode("CenturionMode", "time-trail-racing")
    /\ outcome' = [op |-> "disableCenturion", result |-> 200, on |-> 0]
    /\ UNCHANGED <<hmVars, tapeVars, waveVars, storeVars, lookupVars>>
    /\ UNCHANGED <<created, keyOf, loaded, ready, received, reqs, status>>

\* DELETE modes/centurion
DisableCenturion ==
    /\ disableMode("CenturionMode", "centurion")
    /\ outcome' = [op |-> "disableCenturion", result |-> 200, on |-> 0]
    /\ UNCHANGED <<hmVars, tapeVars, waveVars, storeVars, lookupVars>>
    /\ UNCHANGED <<created, keyOf, loaded, ready, received, reqs, status>>

\* DELETE modes/time-trail-race
DisableTimeTrailRacing ==
    /\ disableMode("TimeTrailRaceMode", "time-trail-racing")
    /\ outcome' = [op |-> "disableTimeTrailRacing", result |-> 200, on |-> 0]
    /\ UNCHANGED <<hmVars, tapeVars, waveVars, storeVars, lookupVars>>
    /\ UNCHANGED <<created, keyOf, loaded, ready, received, reqs, status>>

\* a handler that disables the Centurion mode alone
DisableAllModesCenturionOnly ==
    /\ disableMode("CenturionMode", "centurion")
    /\ outcome' = [op |-> "disableAllModes", result |-> 200, on |-> 0]
    /\ UNCHANGED <<hmVars, tapeVars, waveVars, storeVars, lookupVars>>
    /\ UNCHANGED <<created, keyOf, loaded, ready, received, reqs, status>>

\* DELETE modes
DisableAllModes ==
    /\ reset
    /\ outcome' = [op |-> "disableAllModes", result |-> 200, on |-> 0]
    /\ UNCHANGED <<hmVars, tapeVars, waveVars, storeVars, lookupVars>>
    /\ UNCHANGED <<created, keyOf, loaded, ready, received, reqs, status>>

(***************************************************************************)
(* The shared emitters and the timers of the modes.                        *)
(***************************************************************************)
\* One event of the emitter of key k reaches every instance subscribed to it.
Emit(k) ==
    LET to == {i \in subscribed : keyOf[i] = k}
    IN  /\ to # {}
        /\ ~(to \subseteq received)
        /\ received' = received \cup to
        /\ UNCHANGED <<hmVars, tapeVars, waveVars, storeVars, lookupVars>>
        /\ UNCHANGED <<modes, created, keyOf, subscribed, playing, loaded, ready,
                       reqs, status, outcome>>

\* One timer tick reaches every instance whose timers run.
Tick ==
    /\ playing # {}
    /\ ~(playing \subseteq received)
    /\ received' = received \cup playing
    /\ UNCHANGED <<hmVars, tapeVars, waveVars, storeVars, lookupVars>>
    /\ UNCHANGED <<modes, created, keyOf, subscribed, playing, loaded, ready,
                   reqs, status, outcome>>

\* The collaborators of a constructed Centurion mode become prepared.
BecomeReady(i) ==
    /\ i <= created
    /\ keyOf[i] = "centurion"
    /\ i \notin ready
    /\ ready' = ready \cup {i}
    /\ UNCHANGED <<hmVars, tapeVars, waveVars, storeVars, lookupVars>>
    /\ UNCHANGED <<modes, created, keyOf, subscribed, playing, loaded, received,
                   reqs, status, outcome>>

(***************************************************************************)
(* CenturionController: start and stop of the enabled Centurion mode.      *)
(***************************************************************************)
\* mode.start(): FALSE while the collaborators are not prepared, else the
\* timers of the mode run.
start(i) == i \in ready

\* GET modes/centurion
GetCenturion ==
    LET mode == getMode("CenturionMode")
    IN  /\ IF mode = 0
           THEN outcome' = [op |-> "get", result |-> 404, on |-> 0]
           ELSE outcome' = [op |-> "get", result |-> 200, on |-> mode]
        /\ UNCHANGED <<hmVars, tapeVars, waveVars, storeVars, lookupVars>>
        /\ UNCHANGED <<modes, created, keyOf, subscribed, playing, loaded, ready, received,
                       reqs, status>>

\* a handler that does not look at what start() returns
StartCenturionUnanswered ==
    LET mode == getMode("CenturionMode")
    IN  /\ IF mode = 0
           THEN /\ outcome' = [op |-> "start", result |-> 404, on |-> 0]
                /\ UNCHANGED playing
           ELSE /\ outcome' = [op |-> "start", result |-> 204, on |-> mode]
                /\ playing' = IF start(mode) THEN playing \cup {mode} ELSE playing
        /\ UNCHANGED <<hmVars, tapeVars, waveVars, storeVars, lookupVars>>
        /\ UNCHANGED <<modes, created, keyOf, subscribed, loaded, ready, received,
                       reqs, status>>

\* a handler that calls start() without testing for an absent mode
StartCenturionUntested ==
    LET mode == getMode("CenturionMode")
    IN  /\ IF ~start(mode)
           THEN /\ outcome' = [op |-> "start", result |-> 428, on |-> mode]
                /\ UNCHANGED playing
           ELSE /\ outcome' = [op |-> "start", result |-> 204, on |-> mode]
                /\ playing' = playing \cup {mode}
        /\ UNCHANGED <<hmVars, tapeVars, waveVars, storeVars, lookupVars>>
        /\ UNCHANGED <<modes, created, keyOf, subscribed, loaded, ready, received,
                       reqs, status>>

\* POST modes/centurion/start
StartCenturion ==
    LET mode == getMode("CenturionMode")
    IN  /\ IF mode = 0
           THEN /\ outcome' = [op |-> "start", result |-> 404, on |-> 0]
                /\ UNCHANGED playing
           ELSE IF ~start(mode)
           THEN /\ outcome' = [op |-> "start", result |-> 428, on |-> mode]
                /\ UNCHANGED playing
           ELSE /\ outcome' = [op |-> "start", result |-> 204, on |-> mode]
                /\ playing' = playing \cup {mode}
        /\ UNCHANGED <<hmVars, tapeVars, waveVars, storeVars, lookupVars>>
        /\ UNCHANGED <<modes, created, keyOf, subscribed, loaded, ready, received,
                       reqs, status>>

\* POST modes/centurion/skip: mode.skip(seconds) on the stored instance; the
\* playback state it moves is that of the tape scheduler.
SkipCenturion ==
    LET mode == getMode("CenturionMode")
    IN  /\ IF mode = 0
           THEN outcome' = [op |-> "skip", result |-> 404, on |-> 0]
           ELSE outcome' = [op |-> "skip", result |-> 204, on |-> mode]
        /\ UNCHANGED <<hmVars, tapeVars, waveVars, storeVars, lookupVars>>
        /\ UNCHANGED <<modes, created, keyOf, subscribed, playing, loaded, ready, received,
                       reqs, status>>

\* POST modes/centurion/stop
StopCenturion ==
    LET mode == getMode("CenturionMode")
    IN  /\ IF mode = 0
           THEN /\ outcome' = [op |-> "stop", result |-> 404, on |-> 0]
                /\ UNCHANGED playing
           ELSE /\ outcome' = [op |-> "stop", result |-> 204, on |-> mode]
                /\ playing' = playing \ {mode}
        /\ UNCHANGED <<hmVars, tapeVars, waveVars, storeVars, lookupVars>>
        /\ UNCHANGED <<modes, created, keyOf, subscribed, loaded, ready, received,
                       reqs, status>>

NextModes ==
    \/ \E n \in RequestedTapes : EnableCenturion(n)
    \/ EnableTimeTrailRace
    \/ \E n \in RequestedTapes : EnableCenturionResume(n)
    \/ EnableTimeTrailRaceResume
    \/ DisableCenturion
    \/ DisableTimeTrailRacing
    \/ DisableAllModes
    \/ \E k \in ModeKeys : Emit(k)
    \/ Tick
    \/ \E i \in Instances : BecomeReady(i)
    \/ GetCenturion
    \/ StartCenturion
    \/ SkipCenturion
    \/ StopCenturion

(***************************************************************************)
(* The tape scheduler of the Centurion mode: the playback state of the     *)
(* enabled mode, driven by the CenturionController calls and the timer.    *)
(***************************************************************************)
\* The latest second of a tape that the model plays.
MaxTime == 11
\* The longest time between two ticks of the scheduling loop.
MaxStep == 2

\* The feeds of the tapes, as the timestamps of their cues: non-decreasing,
\* as authored.
Feeds == {<<0, 5, 10>>, <<0, 0, 3, 3>>, <<2, 6, 6, 9>>, <<4>>}

Cues == DOMAIN feed

InitTape ==
    /\ feed \in Feeds
    /\ elapsed = 0
    /\ tapePlaying = FALSE
    /\ nextCue = 0
    /\ fired = [c \in DOMAIN feed |-> 0]
    /\ dispatch = << >>
    /\ skippedTo = -1
    /\ tapeOp = "load"

\* The tape is idle: the state of the specifications that do not play it.
TapeIdle == InitTape /\ feed = <<0, 5, 10>>

Max(a, b) == IF a >= b THEN a ELSE b

\* The number of cues before the first cue with timestamp > s, scanning the
\* feed from cue i on; the cue count when there is none.
RECURSIVE firstCueAfter(_, _, _)
firstCueAfter(f, s, i) ==
    IF i > Len(f) THEN Len(f)
    ELSE IF f[i] > s THEN i - 1
    ELSE firstCueAfter(f, s, i + 1)

\* The cues that a tick at elapsed time now dispatches when n cues are
\* already dispatched: the following cues with timestamp <= now, in order.
RECURSIVE dueCues(_, _, _)
dueCues(f, n, now) ==
    IF n < Len(f) /\ f[n + 1] <= now
    THEN <<n + 1>> \o dueCues(f, n + 1, now)
    ELSE << >>

\* mode.start(): with unprepared collaborators nothing changes and the
\* not-ready signal is returned, else the scheduling loop runs.
PlayStart(isReady) ==
    /\ ~tapePlaying
    /\ IF isReady
       THEN /\ tapePlaying' = TRUE
            /\ tapeOp' = "start"
       ELSE /\ tapeOp' = "notReady"
            /\ UNCHANGED tapePlaying
    /\ dispatch' = << >>
    /\ UNCHANGED <<feed, elapsed, nextCue, fired, skippedTo>>
    /\ UNCHANGED <<hmVars, modeVars, waveVars, storeVars, lookupVars>>

\* One tick of the scheduling loop, dt seconds after the previous one.
PlayTick(dt) ==
    /\ tapePlaying
    /\ elapsed + dt <= MaxTime
    /\ elapsed' = elapsed + dt
    /\ dispatch' = dueCues(feed, nextCue, elapsed')
    /\ nextCue' = nextCue + Len(dispatch')
    /\ fired' = [c \in Cues |-> IF c \in Range(dispatch') THEN fired[c] + 1 ELSE fired[c]]
    /\ tapeOp' = "tick"
    /\ UNCHANGED <<feed, tapePlaying, skippedTo>>
    /\ UNCHANGED <<hmVars, modeVars, waveVars, storeVars, lookupVars>>

\* mode.skip(seconds): elapsed time becomes seconds, not below 0, and the
\* next cue is the first one with a timestamp after it.
skip(seconds) ==
    /\ elapsed' = Max(seconds, 0)
    /\ nextCue' = firstCueAfter(feed, Max(seconds, 0), 1)

\* a controller that passes a later second to the mode
PlaySkipOffByOne(seconds) ==
    /\ skip(seconds + 1)
    /\ skippedTo' = Max(seconds, 0)
    /\ fired' = [c \in Cues |-> 0]
    /\ dispatch' = << >>
    /\ tapeOp' = "skip"
    /\ UNCHANGED <<feed, tapePlaying>>
    /\ UNCHANGED <<hmVars, modeVars, waveVars, storeVars, lookupVars>>

\* a controller that answers without calling the mode
PlaySkipNotForwarded(seconds) ==
    /\ skippedTo' = Max(seconds, 0)
    /\ fired' = [c \in Cues |-> 0]
    /\ dispatch' = << >>
    /\ tapeOp' = "skip"
    /\ UNCHANGED <<feed, tapePlaying, elapsed, nextCue>>
    /\ UNCHANGED <<hmVars, modeVars, waveVars, storeVars, lookupVars>>

\* POST modes/centurion/skip on the enabled mode: mode.skip(seconds)
PlaySkip(seconds) ==
    /\ skip(seconds)
    /\ skippedTo' = Max(seconds, 0)
    /\ fired' = [c \in Cues |-> 0]
    /\ dispatch' = << >>
    /\ tapeOp' = "skip"
    /\ UNCHANGED <<feed, tapePlaying>>
    /\ UNCHANGED <<hmVars, modeVars, waveVars, storeVars, lookupVars>>

\* mode.stop(): the scheduling loop halts, the playback state stays.
PlayStop ==
    /\ tapePlaying
    /\ tapePlaying' = FALSE
    /\ tapeOp' = "stop"
    /\ dispatch' = << >>
    /\ UNCHANGED <<feed, elapsed, nextCue, fired, skippedTo>>
    /\ UNCHANGED <<hmVars, modeVars, waveVars, storeVars, lookupVars>>

NextTape ==
    \/ \E b \in BOOLEAN : PlayStart(b)
    \/ \E dt \in 0..MaxStep : PlayTick(dt)
    \/ \E s \in -1..MaxTime : PlaySkip(s)
    \/ PlayStop

(***************************************************************************)
(* ClassicRotate: the triangle wave and the position computed from it.     *)
(* Times are exact fractions: the integer a stands for a / Grain, and a    *)
(* value is a record num/den with den > 0.                                 *)
(***************************************************************************)
\* Steps per unit of time.
Grain == 4
\* The largest |t|, progression and offset, in steps.
MaxWave == 6
\* The largest period, in steps.
MaxPeriod == 5

WaveTimes == (0 - MaxWave)..MaxWave
Periods == 1..MaxPeriod
\* The offsets: up to one default period either way.
Offsets == (0 - Grain)..Grain

\* a factor found by truncation towards zero instead of Math.floor
triangleFunctionTruncated(t, p) ==
    LET n == 4 * t + p
        factor == IF n >= 0 THEN n \div (2 * p) ELSE 0 - ((0 - n) \div (2 * p))
        sign == IF factor % 2 = 0 THEN 1 ELSE 0 - 1
    IN  [num |-> 2 * (2 * t - p * factor) * sign, den |-> p]

\* triangleFunction(t, p): factor = floor(2t/p + 0.5) = floor((4t + p) / 2p)
\* and the value is (4/p) * (t - (p/2) * factor) * (-1)^factor, which is
\* 2 * (2t - p * factor) * (-1)^factor / p.
triangleFunction(t, p) ==
    LET factor == (4 * t + p) \div (2 * p)
        sign == IF factor % 2 = 0 THEN 1 ELSE 0 - 1
    IN  [num |-> 2 * (2 * t - p * factor) * sign, den |-> p]

\* x * 128 + 128 for a fraction x
scaled(x) == [num |-> x.num * 128 + 128 * x.den, den |-> x.den]

\* setPosition(movingHead, progression, offset): the pan and tilt it passes
\* to the moving head, with the default period 1.
setPosition(prog, off) ==
    [pan |-> scaled(triangleFunction(prog + off, Grain)),
     tilt |-> scaled(triangleFunction(prog * 4 + off, Grain))]

InitWave ==
    /\ waveT = 0
    /\ waveP = Grain
    /\ wave = triangleFunction(0, Grain)
    /\ progression = 0
    /\ offset = 0
    /\ pan = setPosition(0, 0).pan
    /\ tilt = setPosition(0, 0).tilt

TriangleFunction(t, p) ==
    /\ waveT' = t
    /\ waveP' = p
    /\ wave' = triangleFunction(t, p)
    /\ UNCHANGED <<progression, offset, pan, tilt>>
    /\ UNCHANGED <<hmVars, modeVars, tapeVars, storeVars, lookupVars>>

SetPosition(prog, off) ==
    /\ progression' = prog
    /\ offset' = off
    /\ pan' = setPosition(prog, off).pan
    /\ tilt' = setPosition(prog, off).tilt
    /\ UNCHANGED <<waveT, waveP, wave>>
    /\ UNCHANGED <<hmVars, modeVars, tapeVars, storeVars, lookupVars>>

NextWave ==
    \/ \E t \in WaveTimes, p \in Periods : TriangleFunction(t, p)
    \/ \E prog \in WaveTimes, off \in Offsets : SetPosition(prog, off)

(***************************************************************************)
(* ServerSettingsStore: key-value settings held in memory and in the       *)
(* database.  initialize and setSetting await the repository, so other     *)
(* calls run between their steps.                                          *)
(***************************************************************************)
\* setSetting calls that may be in flight at once.
MaxSetCalls == 1
\* initialize calls that may be in flight at once.
MaxInitCalls == 2

SettingKeys == {"k1", "k2"}
SettingValues == {"d", "v"}
\* SettingsDefaults
SettingsDefaults == [k \in SettingKeys |-> "d"]

NoRow == "none"
Unset == "undefined"
NoRows == [k \in SettingKeys |-> NoRow]

\* The bag of one call.
One(call) == SetToBag({call})

\* The rows that a repo.find() may return.
RowsFound == [SettingKeys -> SettingValues \cup {NoRow}]

\* An initialize call in flight: where it stands and the rows it found.
InitCalls == [pc : {"finding", "saving", "mapping"}, rows : RowsFound]

\* A setSetting call in flight: where it stands and its arguments.
SetCalls == [pc : {"finding", "saving"}, key : SettingKeys, value : SettingValues]

InitStore ==
    /\ storeInitialized = FALSE
    /\ settings = [k \in SettingKeys |-> Unset]
    /\ db \in RowsFound
    /\ initCalls = EmptyBag
    /\ setCalls = EmptyBag
    /\ storeOp = [op |-> "none", key |-> "", value |-> "", result |-> ""]
    /\ saves = [k \in SettingKeys |-> 0]
    /\ completed = 0

StoreIdle == InitStore /\ db = NoRows

\* an isInitialized that lets every call through
isInitializedUnchecked == TRUE

\* isInitialized(): throws unless the store is initialized
isInitialized == storeInitialized

\* an initialize that does not test whether the store is initialized
alreadyInitializedUntested == FALSE

\* initialize(): the test that throws 'already initialized'
alreadyInitialized == storeInitialized

\* initialize() up to the await of repo.find()
InitializeBegin ==
    /\ IF alreadyInitialized
       THEN /\ storeOp' = [op |-> "initialize", key |-> "", value |-> "",
                           result |-> "alreadyInitialized"]
            /\ UNCHANGED initCalls
       ELSE /\ BagCardinality(initCalls) < MaxInitCalls
            /\ initCalls' = initCalls (+) One([pc |-> "finding", rows |-> NoRows])
            /\ UNCHANGED storeOp
    /\ UNCHANGED <<storeInitialized, settings, db, setCalls, saves, completed>>
    /\ UNCHANGED <<hmVars, modeVars, tapeVars, waveVars, lookupVars>>

\* repo.find() returns the rows; a save is started for each default key
\* without a row
InitializeFound(call) ==
    /\ BagIn(call, initCalls)
    /\ call.pc = "finding"
    /\ initCalls' = (initCalls (-) One(call)) (+) One([pc |-> "saving", rows |-> db])
    /\ UNCHANGED <<storeInitialized, settings, db, setCalls, storeOp, saves, completed>>
    /\ UNCHANGED <<hmVars, modeVars, tapeVars, waveVars, lookupVars>>

\* an initialize that saves the default of every key
missingAll(call) == SettingKeys

\* the default keys for which the call found no row
missing(call) == {k \in SettingKeys : call.rows[k] = NoRow}

\* the saves of the defaults reach the database
InitializeSaved(call) ==
    /\ BagIn(call, initCalls)
    /\ call.pc = "saving"
    /\ db' = [k \in SettingKeys |-> IF k \in missing(call) THEN SettingsDefaults[k] ELSE db[k]]
    /\ saves' = [k \in SettingKeys |-> IF k \in missing(call) THEN saves[k] + 1 ELSE saves[k]]
    /\ initCalls' = (initCalls (-) One(call)) (+) One([call EXCEPT !.pc = "mapping"])
    /\ UNCHANGED <<storeInitialized, settings, setCalls, storeOp, completed>>
    /\ UNCHANGED <<hmVars, modeVars, tapeVars, waveVars, lookupVars>>

\* after Promise.all: the map of the fetched and the saved rows becomes the
\* settings and the store is initialized
InitializeEnd(call) ==
    /\ BagIn(call, initCalls)
    /\ call.pc = "mapping"
    /\ settings' = [k \in SettingKeys |->
                       IF call.rows[k] # NoRow THEN call.rows[k] ELSE SettingsDefaults[k]]
    /\ storeInitialized' = TRUE
    /\ initCalls' = initCalls (-) One(call)
    /\ storeOp' = [op |-> "initialize", key |-> "", value |-> "", result |-> "ok"]
    /\ completed' = completed + 1
    /\ UNCHANGED <<db, setCalls, saves>>
    /\ UNCHANGED <<hmVars, modeVars, tapeVars, waveVars, lookupVars>>

\* getSetting(key)
GetSetting(key) ==
    /\ IF isInitialized
       THEN storeOp' = [op |-> "get", key |-> key, value |-> settings[key], result |-> "ok"]
       ELSE storeOp' = [op |-> "get", key |-> key, value |-> "", result |-> "notInitialized"]
    /\ UNCHANGED <<storeInitialized, settings, db, initCalls, setCalls, saves, completed>>
    /\ UNCHANGED <<hmVars, modeVars, tapeVars, waveVars, lookupVars>>

\* setSetting(key, value) up to the await of repo.findOne()
SetSettingBegin(key, value) ==
    /\ IF isInitialized
       THEN /\ BagCardinality(setCalls) < MaxSetCalls
            /\ setCalls' = setCalls (+) One([pc |-> "finding", key |-> key, value |-> value])
            /\ UNCHANGED storeOp
       ELSE /\ storeOp' = [op |-> "set", key |-> key, value |-> value,
                           result |-> "notInitialized"]
            /\ UNCHANGED setCalls
    /\ UNCHANGED <<storeInitialized, settings, db, initCalls, saves, completed>>
    /\ UNCHANGED <<hmVars, modeVars, tapeVars, waveVars, lookupVars>>

\* repo.findOne() returns the row; its value is assigned and the save starts
SetSettingFound(call) ==
    /\ BagIn(call, setCalls)
    /\ call.pc = "finding"
    /\ IF db[call.key] = NoRow
       THEN /\ setCalls' = setCalls (-) One(call)
            /\ storeOp' = [op |-> "set", key |-> call.key, value |-> call.value,
                           result |-> "typeError"]
       ELSE /\ setCalls' = (setCalls (-) One(call)) (+) One([call EXCEPT !.pc = "saving"])
            /\ UNCHANGED storeOp
    /\ UNCHANGED <<storeInitialized, settings, db, initCalls, saves, completed>>
    /\ UNCHANGED <<hmVars, modeVars, tapeVars, waveVars, lookupVars>>

\* repo.save(setting) reaches the database and setSetting returns
SetSettingSaved(call) ==
    /\ BagIn(call, setCalls)
    /\ call.pc = "saving"
    /\ db' = [db EXCEPT ![call.key] = call.value]
    /\ setCalls' = setCalls (-) One(call)
    /\ storeOp' = [op |-> "set", key |-> call.key, value |-> call.value, result |-> "ok"]
    /\ UNCHANGED <<storeInitialized, settings, initCalls, saves, completed>>
    /\ UNCHANGED <<hmVars, modeVars, tapeVars, waveVars, lookupVars>>

NextStore ==
    \/ InitializeBegin
    \/ \E call \in InitCalls : InitializeFound(call)
    \/ \E call \in InitCalls : InitializeSaved(call)
    \/ \E call \in InitCalls : InitializeEnd(call)
    \/ \E k \in SettingKeys : GetSetting(k)
    \/ \E k \in SettingKeys, v \in SettingValues : SetSettingBegin(k, v)
    \/ \E call \in SetCalls : SetSettingFound(call)
    \/ \E call \in SetCalls : SetSettingSaved(call)

(***************************************************************************)
(* ModeController.mapBodyToEntities: the entities of an enable request,    *)
(* found in three repositories one after the other.                        *)
(***************************************************************************)
\* The largest id of a row.
MaxId == 2

Ids == 1..MaxId

\* The ids of the rows of each table.
Rows(table) ==
    CASE table = "LightsGroup" -> Ids
      [] table = "Screen"      -> Ids
      [] table = "Audio"       -> Ids \ {1}

\* EnableModeParams
EnableModeParams == [lightsGroupIds : SUBSET Ids, screenIds : SUBSET Ids, audioIds : SUBSET Ids]

\* findEntities(entity, ids): the rows of the table whose id is In(ids)
findEntities(table, ids) == Rows(table) \cap ids

InitLookup ==
    /\ params = [lightsGroupIds |-> {}, screenIds |-> {}, audioIds |-> {}]
    /\ lookupPc = "done"
    /\ lights = {}
    /\ screens = {}
    /\ audios = {}

\* mapBodyToEntities(params) up to its first await
MapBodyToEntities(body) ==
    /\ lookupPc = "done"
    /\ params' = body
    /\ lookupPc' = "lights"
    /\ lights' = {}
    /\ screens' = {}
    /\ audios' = {}
    /\ UNCHANGED <<hmVars, modeVars, tapeVars, waveVars, storeVars>>

FindLights ==
    /\ lookupPc = "lights"
    /\ lights' = findEntities("LightsGroup", params.lightsGroupIds)
    /\ lookupPc' = "screens"
    /\ UNCHANGED <<params, screens, audios>>
    /\ UNCHANGED <<hmVars, modeVars, tapeVars, waveVars, storeVars>>

FindScreens ==
    /\ lookupPc = "screens"
    /\ screens' = findEntities("Screen", params.lightsGroupIds)
    /\ lookupPc' = "audios"
    /\ UNCHANGED <<params, lights, audios>>
    /\ UNCHANGED <<hmVars, modeVars, tapeVars, waveVars, storeVars>>

FindAudios ==
    /\ lookupPc = "audios"
    /\ audios' = findEntities("Audio", params.lightsGroupIds)
    /\ lookupPc' = "done"
    /\ UNCHANGED <<params, lights, screens>>
    /\ UNCHANGED <<hmVars, modeVars, tapeVars, waveVars, storeVars>>

NextLookup ==
    \/ \E body \in EnableModeParams : MapBodyToEntities(body)
    \/ FindLights
    \/ FindScreens
    \/ FindAudios

\* The rows of one boot, for the specifications that leave the HandlerManager idle.
BootRows == [e \in Entities |-> CHOOSE n \in BootHandlerNames(e) : TRUE]

Init == InitHM /\ InitModes /\ TapeIdle /\ InitWave /\ StoreIdle /\ InitLookup

Next == NextHM

\* The HandlerManager.
Spec == Init /\ [][Next]_vars

\* The ModeController and ModeManager, over the rows of one boot.
ModeInit == Init /\ currentHandler = BootRows

ModeSpec == ModeInit /\ [][NextModes]_vars

\* The tape scheduler, over every feed.
TapeInit == InitHM /\ currentHandler = BootRows /\ InitModes /\ InitTape /\ InitWave /\ StoreIdle /\ InitLookup

TapeSpec == TapeInit /\ [][NextTape]_vars

\* The triangle wave and the positions, over every argument.
WaveInit == InitHM /\ currentHandler = BootRows /\ InitModes /\ TapeIdle /\ InitWave /\ StoreIdle /\ InitLookup

WaveSpec == WaveInit /\ [][NextWave]_vars

\* The settings store, over every content of the database at boot.
StoreInit == InitHM /\ currentHandler = BootRows /\ InitModes /\ TapeIdle /\ InitWave /\ InitStore /\ InitLookup

StoreSpec == StoreInit /\ [][NextStore]_vars

\* The entity lookup of the enable requests, over every request body.
LookupInit == InitHM /\ currentHandler = BootRows /\ InitModes /\ TapeIdle /\ InitWave /\ StoreIdle /\ InitLookup

LookupSpec == LookupInit /\ [][NextLookup]_vars

(***************************************************************************)
(* Properties of the HandlerManager.                                       *)
(***************************************************************************)
\* What getHandlers(category of e) shows: the handlers of e's category holding e.
ShownWith(e) == {h \in Range(getHandlers(CategoryOf(e))) : e \in entities[h]}

\* registerHandler has just returned.
Registered == lastOp.op = "registerHandler" /\ hmPc = "idle" /\ rh.entity \in Entities

\* C1: in every reachable state each device entity is registered with at most
\* one handler, and only with handlers of its own category.
C1_AtMostOneHandler ==
    \A e \in Entities :
        /\ Cardinality(Holding(e)) <= 1
        /\ Holding(e) \subseteq Range(HandlersOf(CategoryOf(e)))

\* C1 witness: after two runs of init and a connect, registerHandler has moved
\* l1 to SetEffectsHandler, its only handler.
C1_Witness ==
    /\ Registered
    /\ listeners = 2
    /\ rh.entity = "l1"
    /\ rh.socket # 0
    /\ Holding("l1") = {"SetEffectsHandler"}
    /\ Holding("a1") = {"SimpleAudioHandler"}

\* C2 (as claimed): when registerHandler(entity, name) has returned, getHandlers
\* shows the entity with exactly one handler if name is not empty and with none
\* if name is empty.
C2_RegisterThenShown ==
    Registered =>
        IF rh.newHandler # ""
        THEN Cardinality(ShownWith(rh.entity)) = 1
        ELSE ShownWith(rh.entity) = {}

\* C4: no connect or disconnect scan runs between the deregister half and the
\* register half of a registerHandler call: every scan step starts and ends
\* with no call in progress.
C4_ScanNeverInsideRegisterHandler ==
    [][sockets' # sockets => (hmPc = "idle" /\ hmPc' = "idle")]_vars

\* C4 witness: a registerHandler call on a bound entity is half done (the
\* entity is with no handler) while a socket is open and listeners are added.
C4_Witness ==
    /\ hmPc = "registering"
    /\ rh.entity = "l1"
    /\ rh.newHandler = "SetEffectsHandler"
    /\ Holding("l1") = {}
    /\ listeners > 0
    /\ \E s \in SocketIds : sockets[s] = "alpha"
    /\ \E s \in SocketIds : sockets[s] = ""

\* A step that is the connect event (u, s).
ConnectStep(u, s) == sockets[s] = "" /\ sockets'[s] = u

\* C5: once the listeners are added, a connect event (u, s) stores s as the
\* socket id of every registered entity named u, saves it, and pushes
\* handler_set with the name of the handler holding it to s; other entities
\* keep their socket id, and nothing else is pushed.
C5_ConnectAttachesAndPushes ==
    [][\A u \in Users, s \in SocketIds :
          (ConnectStep(u, s) /\ listeners > 0) =>
              /\ \A e \in Entities :
                    IF Holding(e) # {} /\ NameOf(e) = u
                    THEN /\ socketId'[e] = s
                         /\ dbSocketId'[e] = s
                         /\ \A h \in Holding(e) :
                               CopiesIn(Push(s, "handler_set", h), pushes') >= 1
                    ELSE /\ socketId'[e] = socketId[e]
                         /\ dbSocketId'[e] = dbSocketId[e]
              /\ \A p \in DOMAIN pushes' :
                    /\ p.to = s
                    /\ p.ev = "handler_set"
                    /\ \E e \in Entities : NameOf(e) = u /\ p.arg \in Holding(e)
              /\ entities' = entities
              /\ currentHandler' = currentHandler]_vars

\* C5 witness: a connect of "alpha" on socket 2 has reached both entities of
\* that name, while the registered entity named "beta" kept socket 1.
C5_Witness ==
    /\ lastOp = [op |-> "connect", sid |-> 2]
    /\ sockets[2] = "alpha"
    /\ listeners > 0
    /\ socketId["l1"] = 2 /\ dbSocketId["l1"] = 2
    /\ socketId["a1"] = 2 /\ dbSocketId["a1"] = 2
    /\ Holding("l2") # {} /\ socketId["l2"] = 1
    /\ CopiesIn(Push(2, "handler_set", "RandomEffectsHandler"), pushes) >= 1
    /\ CopiesIn(Push(2, "handler_set", "SimpleAudioHandler"), pushes) >= 1

\* C6 (as claimed): a registerHandler(entity, name) call made while the entity
\* has a live socket pushes exactly one notification to it, handler_set(name)
\* for a non-empty name and handler_remove for the empty name; without a live
\* socket nothing is pushed.
C6_RegisterPushesOnce ==
    Registered =>
        IF rh.socket # 0
        THEN pushes = IF rh.newHandler # ""
                      THEN Copies({Push(rh.socket, "handler_set", rh.newHandler)}, 1)
                      ELSE Copies({Push(rh.socket, "handler_remove", "")}, 1)
        ELSE pushes = EmptyBag

\* C7: when init has completed, an entity whose saved handler name is the name
\* of a handler of its category is registered with that handler and no other,
\* every other entity is registered with none, and init raised no error.
C7_RestoreMatchesSavedName ==
    /\ lastOp.op # "initError"
    /\ lastOp.op = "init" =>
          \A e \in Entities :
              IF currentHandler[e] \in Range(HandlersOf(CategoryOf(e)))
              THEN Holding(e) = {currentHandler[e]}
              ELSE Holding(e) = {}

\* C7 witness: init has completed at boot; l1's saved handler no longer exists
\* and a1's saved name is a handler of another category, so both are unbound,
\* and l2 is restored to SetEffectsHandler.
C7_Witness ==
    /\ lastOp.op = "init"
    /\ listeners = 1
    /\ currentHandler["l1"] = "RemovedHandler" /\ Holding("l1") = {}
    /\ currentHandler["a1"] = "RandomEffectsHandler" /\ Holding("a1") = {}
    /\ Holding("l2") = {"SetEffectsHandler"}

(***************************************************************************)
(* Properties of the ModeController and ModeManager.                       *)
(***************************************************************************)
\* The instances built for key k that are live: subscribed to the shared
\* emitter of the key, or with running timers.
Live(k) == {i \in subscribed \cup playing : keyOf[i] = k}

\* C3 (as claimed): under every interleaving of enable requests, at most one
\* instance is live for a key, and once a newer instance of the key has
\* received an event or tick every older instance of the key is torn down.
C3_OneLiveInstancePerKey ==
    \A k \in ModeKeys :
        /\ Cardinality(Live(k)) <= 1
        /\ \A i, j \in Instances :
              (keyOf[i] = k /\ keyOf[j] = k /\ j < i /\ i \in received) => j \notin Live(k)


(***************************************************************************)
(* Properties of the tape scheduler.                                       *)
(***************************************************************************)
\* The cues dispatched since the latest skip (since the start when there was
\* none).
FiredCues == {c \in Cues : fired[c] > 0}

\* The number of cues of the feed with a timestamp of at most s.
CuesUpTo(s) == Cardinality({c \in Cues : feed[c] <= s})

\* C8: after skip(s) with s >= 0 the next-cue index is the number of cues
\* before the first cue with timestamp > s (the cue count when there is none),
\* elapsed time is s, and no later tick dispatches a cue with timestamp <= s.
C8_SkipSetsNextCue ==
    skippedTo >= 0 =>
        /\ tapeOp = "skip" =>
              /\ elapsed = skippedTo
              /\ nextCue = CuesUpTo(skippedTo)
              /\ \A c \in Cues : c <= nextCue <=> feed[c] <= skippedTo
        /\ nextCue >= CuesUpTo(skippedTo)
        /\ \A c \in FiredCues : feed[c] > skippedTo

C8_Witness ==
    /\ feed = <<2, 6, 6, 9>>
    /\ skippedTo = 6
    /\ tapeOp = "tick"
    /\ elapsed = 8
    /\ nextCue = 3
    /\ FiredCues = {}

TickDispatchesDue ==
    /\ tapeOp = "tick" =>
          /\ dispatch = [n \in 1..Len(dispatch) |-> nextCue - Len(dispatch) + n]
          /\ \A n \in 1..Len(dispatch) : feed[dispatch[n]] <= elapsed
          /\ \A c \in Cues : c > nextCue => feed[c] > elapsed
    /\ \A c \in Cues : fired[c] <= 1
    /\ (feed = <<0, 5, 10>> /\ skippedTo = 6) =>
          /\ elapsed < 10 => FiredCues = {}
          /\ elapsed >= 10 => fired = <<0, 0, 1>>

\* C10: while the tape plays each tick dispatches exactly the due cues not yet
\* dispatched, in authored order; between skips the next-cue index never
\* decreases and no cue is dispatched twice; with cues at 0, 5, 10, after
\* start() and skip(6) nothing is dispatched until elapsed time reaches 10 and
\* then the cue at 10 is dispatched exactly once.
C10_TickDispatchesDueOnce ==
    /\ []TickDispatchesDue
    /\ [][tapeOp' # "skip" => nextCue' >= nextCue]_vars

C10_Witness ==
    /\ feed = <<0, 5, 10>>
    /\ skippedTo = 6
    /\ tapePlaying
    /\ tapeOp = "tick"
    /\ elapsed >= 10
    /\ dispatch = <<3>>
    /\ fired = <<0, 0, 1>>

(***************************************************************************)
(* Properties of disableMode, reset and the Centurion operations.          *)
(***************************************************************************)
\* The type stored for a key, "" for an empty slot.
StoredType(key) == IF modes[key] = 0 THEN "" ELSE TypeOfKey(keyOf[modes[key]])

\* What disableMode(type, key) does in a step: with the stored type equal to
\* type the instance leaves the slot, the emitter and its timers, and
\* getMode(type) is absent afterwards; else the mapping stays as it is.
DisabledAs(type, key) ==
    IF StoredType(key) = type
    THEN /\ modes' = [modes EXCEPT ![key] = 0]
         /\ modes[key] \notin subscribed' \cup playing'
         /\ getMode(type)' = 0
    ELSE /\ modes' = modes
         /\ subscribed' = subscribed
         /\ playing' = playing

\* C11: disableMode(type, key) removes and tears down the instance stored for
\* key exactly when its stored type is type, and getMode(type) is then absent
\* however many enableMode calls came before; with another stored type or an
\* empty slot the mode mapping is unchanged.
C11_DisableRemovesMatchingType ==
    [][ /\ outcome'.op = "disableCenturion" /\ outcome.op # "disableCenturion"
            => DisabledAs("CenturionMode", "centurion")
        /\ outcome'.op = "disableTimeTrailRacing" /\ outcome.op # "disableTimeTrailRacing"
            => DisabledAs("TimeTrailRaceMode", "time-trail-racing") ]_vars

C11_Witness ==
    /\ outcome.op = "disableCenturion"
    /\ created = MaxInstances
    /\ \A i \in Instances : keyOf[i] = "centurion" /\ i \in loaded
    /\ modes["centurion"] = 0
    /\ getMode("CenturionMode") = 0

\* The instances that were stored in a slot: every time-trail-race instance,
\* and the Centurion instances whose tape was found and loaded.
Installed(i) == i <= created /\ (keyOf[i] = "time-trail-racing" \/ i \in loaded)

\* The instances that were stored in a slot and are no longer.
TornDown(i) == Installed(i) /\ \A k \in ModeKeys : modes[k] # i

\* Torn-down instances are on no emitter and have no running timer.
TornDownIsSilent == \A i \in Instances : TornDown(i) => i \notin subscribed \cup playing

\* C12: after reset() no slot holds an instance, getMode is absent for every
\* type, the instances that were stored are torn down, and a torn-down
\* instance is delivered no further tick or emitter event.
C12_ResetLeavesNoActiveMode ==
    /\ [][ (outcome'.op = "disableAllModes" /\ outcome.op # "disableAllModes") =>
              /\ \A k \in ModeKeys : modes'[k] = 0
              /\ getMode("CenturionMode")' = 0
              /\ getMode("TimeTrailRaceMode")' = 0
              /\ \A k \in ModeKeys : modes[k] \notin subscribed' \cup playing' ]_vars
    /\ []TornDownIsSilent
    /\ [][ \A i \in Instances : (TornDown(i) /\ i \notin received) => i \notin received' ]_vars

C12_Witness ==
    /\ outcome.op = "disableAllModes"
    /\ TornDown(1)
    /\ TornDown(2)
    /\ keyOf[1] # keyOf[2]
    /\ received # {}
    /\ \A k \in ModeKeys : modes[k] = 0

(***************************************************************************)
(* Properties of the triangle wave.                                        *)
(***************************************************************************)
Abs(x) == IF x >= 0 THEN x ELSE 0 - x

\* The integers nearest to n / d, for d > 0: both neighbours at a tie.
Nearest(n, d) ==
    {k \in (n \div d)..(n \div d + 1) :
        \A j \in (n \div d)..(n \div d + 1) : Abs(n - k * d) <= Abs(n - j * d)}

\* The specified formula (4/p) * (x - (p/2) * r) * (-1)^r with r = round(2x/p),
\* as the numerator over the denominator p, for a rounded value r.
specifiedWave(t, p, r) ==
    [num |-> 2 * (2 * t - p * r) * (IF r % 2 = 0 THEN 1 ELSE 0 - 1), den |-> p]

\* The positions the moving head accepts: 128 - 128 up to 128 + 128.
InRange(x) == 0 <= x.num /\ x.num <= 256 * x.den

\* C13: the triangle function is 0 at 0, lies in [-1, 1], has period p, agrees
\* with the specified formula for round(2x/p) however ties are rounded, and the
\* pan and tilt computed from it lie in the positional range 128 +/- 128.
C13_TriangleWave ==
    /\ triangleFunction(0, waveP).num = 0
    /\ wave = triangleFunction(waveT, waveP)
    /\ 0 - wave.den <= wave.num /\ wave.num <= wave.den
    /\ triangleFunction(waveT + waveP, waveP) = wave
    /\ triangleFunction(waveT - waveP, waveP) = wave
    /\ \A r \in Nearest(2 * waveT, waveP) : specifiedWave(waveT, waveP, r) = wave
    /\ pan = scaled(triangleFunction(progression + offset, Grain))
    /\ tilt = scaled(triangleFunction(4 * progression + offset, Grain))
    /\ InRange(pan)
    /\ InRange(tilt)

C13_Witness ==
    /\ waveT = 0 - 5
    /\ waveP = 4
    /\ wave = [num |-> 0 - 4, den |-> 4]
    /\ Cardinality(Nearest(2 * waveT, waveP)) = 2
    /\ progression = 1
    /\ offset = 0
    /\ pan = [num |-> 1024, den |-> 4]
    /\ tilt = [num |-> 512, den |-> 4]

CenturionOps == {"get", "start", "skip", "stop"}

\* C14: with no Centurion mode enabled, get, start, skip and stop end with the
\* not-found outcome and start, skip or stop no instance; with one enabled the
\* operation is applied to the instance stored in the mode manager, and to no
\* other.
C14_CenturionOpsUseStoredMode ==
    [][ (outcome'.op \in CenturionOps /\ outcome' # outcome) =>
            IF getMode("CenturionMode") = 0
            THEN /\ outcome'.result = 404
                 /\ outcome'.on = 0
                 /\ playing' = playing
            ELSE /\ outcome'.result # 404
                 /\ outcome'.on = modes["centurion"]
                 /\ playing' \ {modes["centurion"]} = playing \ {modes["centurion"]}
                 /\ outcome'.op \in {"get", "skip"} => playing' = playing
                 /\ outcome'.op = "stop" => modes["centurion"] \notin playing'
                 /\ (outcome'.op = "start" /\ outcome'.result = 204)
                        => modes["centurion"] \in playing' ]_vars

\* A stop answered as not found while a constructed and prepared instance
\* exists and none is stored.
C14_Witness ==
    /\ outcome = [op |-> "stop", result |-> 404, on |-> 0]
    /\ created >= 1
    /\ 1 \in ready
    /\ getMode("CenturionMode") = 0
    /\ playing = {}

\* C15: start() on an enabled Centurion mode that is not ready is answered with
\* the not-ready result 428, which is not the not-found result 404, and leaves
\* the mode not playing; start() on a ready mode succeeds and the mode plays.
C15_StartNotReady ==
    [][ (outcome'.op = "start" /\ outcome' # outcome /\ getMode("CenturionMode") # 0) =>
            IF modes["centurion"] \in ready
            THEN /\ outcome'.result = 204
                 /\ modes["centurion"] \in playing'
            ELSE /\ outcome'.result = 428
                 /\ outcome'.result # 404
                 /\ playing' = playing
                 /\ modes["centurion"] \notin playing' ]_vars

C15_Witness ==
    /\ outcome = [op |-> "start", result |-> 428, on |-> 1]
    /\ modes["centurion"] = 1
    /\ 1 \notin ready
    /\ 1 \notin playing

(***************************************************************************)
(* Properties of a repeated HandlerManager.init.                           *)
(***************************************************************************)
\* C16 (as claimed): an init called after a completed init fails: it starts
\* no second restore and adds no second pair of listeners, so a connect event
\* pushes once per matching registered entity.
C16_SecondInitRejected ==
    /\ listeners <= 1
    /\ hmPc = "restoring" => listeners = 0
    /\ lastOp.op = "connect" =>
          \A p \in DOMAIN pushes :
              CopiesIn(p, pushes) <=
                  Cardinality({e \in entities[p.arg] : NameOf(e) = sockets[lastOp.sid]})

(***************************************************************************)
(* Properties of the ServerSettingsStore.                                  *)
(***************************************************************************)
\* C17 (as claimed): once setSetting(key, value) has completed on an
\* initialized store, getSetting(key) returns value.
C17_GetReturnsWhatWasSet ==
    (storeOp.op = "set" /\ storeOp.result = "ok") => settings[storeOp.key] = storeOp.value

StoreCallEnds == storeOp' # storeOp

\* C18: while initialize has not completed, getSetting and setSetting fail as
\* not initialized and change neither the store nor the database; initialize
\* called on an initialized store fails as already initialized, starts
\* nothing and leaves the settings in memory as they are.
C18_StoreInitializationGuards ==
    [][ /\ (StoreCallEnds /\ storeOp'.op \in {"get", "set"} /\ ~storeInitialized) =>
              /\ storeOp'.result = "notInitialized"
              /\ UNCHANGED <<storeInitialized, settings, db, setCalls>>
        /\ ~storeInitialized => setCalls' = EmptyBag
        /\ (StoreCallEnds /\ storeOp'.result = "alreadyInitialized") =>
              /\ storeInitialized
              /\ UNCHANGED <<storeInitialized, settings, db, initCalls>>
        /\ storeInitialized => BagCardinality(initCalls') <= BagCardinality(initCalls) ]_vars

\* A setSetting refused while initialize stands between its find and its end.
C18_Witness ==
    /\ storeOp = [op |-> "set", key |-> "k1", value |-> "v", result |-> "notInitialized"]
    /\ \E call \in InitCalls : BagIn(call, initCalls) /\ call.pc = "saving"
    /\ ~storeInitialized
    /\ db["k1"] = NoRow

\* An initialize refused on an initialized store.
C18_WitnessRefused ==
    /\ storeOp.result = "alreadyInitialized"
    /\ storeInitialized
    /\ completed = 1

\* C19 (as claimed): when an initialize call completes, the settings in memory
\* hold for every default key the value of the row that the call found, and
\* the default where it found none, which is then the value of the row in the
\* database; and the saves of initialize change no row that exists.
C19_InitializeLoadsRowsOrDefaults ==
    [][ \A call \in InitCalls :
          /\ (BagIn(call, initCalls) /\ call.pc = "mapping" /\ completed' # completed
                 /\ initCalls' = initCalls (-) One(call)) =>
                \A k \in SettingKeys :
                    /\ call.rows[k] # NoRow => settings'[k] = call.rows[k]
                    /\ call.rows[k] = NoRow =>
                          settings'[k] = SettingsDefaults[k] /\ db'[k] = SettingsDefaults[k]
          /\ (BagIn(call, initCalls) /\ call.pc = "saving" /\ saves' # saves) =>
                \A k \in SettingKeys : db[k] # NoRow => db'[k] = db[k] ]_vars

\* C23 (as claimed): of overlapping initialize calls at most one completes
\* without error, and the default of a missing key is saved at most once.
C23_OneInitializeWins ==
    /\ completed <= 1
    /\ \A k \in SettingKeys : saves[k] <= 1

(***************************************************************************)
(* Properties of enableCenturion with an unknown tape.                     *)
(***************************************************************************)
\* C20 (as claimed): an enableCenturion whose tape name matches no tape
\* answers 404 and leaves the system as it was: the stored modes and their
\* timers are untouched and the instance it constructed is not subscribed to
\* the music emitter.
C20_UnknownTapeLeavesNoTrace ==
    [][ (created' # created /\ status' = 404) =>
            /\ modes' = modes
            /\ playing' = playing
            /\ created' \notin subscribed'
            /\ subscribed' = subscribed ]_vars

(***************************************************************************)
(* Properties of the entity lookup of an enable request.                   *)
(***************************************************************************)
\* C21 (as claimed): the mode of a request is constructed with the lights
\* groups whose ids are in lightsGroupIds, the screens whose ids are in
\* screenIds and the audios whose ids are in audioIds.
C21_EntitiesOfTheirOwnIds ==
    (lookupPc = "done") =>
        /\ lights = findEntities("LightsGroup", params.lightsGroupIds)
        /\ screens = findEntities("Screen", params.screenIds)
        /\ audios = findEntities("Audio", params.audioIds)

(***************************************************************************)
(* Properties of the connection id under disconnects.                      *)
(***************************************************************************)
DisconnectStep(s) ==
    /\ sockets[s] # ""
    /\ sockets'[s] = ""
    /\ lastOp' = [op |-> "disconnect", sid |-> s]

\* C22 (as claimed, its particular case): for a registered entity whose stored
\* connection id is that of a connection still open for its name, the
\* disconnect of another connection leaves the stored id as it is, so that
\* the id is not empty while a connection for the name is open.
C22_OlderDisconnectKeepsNewerId ==
    [][ \A s \in SocketIds, e \in Entities :
           (/\ DisconnectStep(s)
            /\ Holding(e) # {}
            /\ socketId[e] \in SocketIds \ {s}
            /\ sockets[socketId[e]] = NameOf(e))
           => socketId'[e] = socketId[e] ]_vars
====
